---- MODULE Spec2Model ----
(***************************************************************************)
(* litepack: an embedded SQLite-backed key-value cache with TTL expiry,    *)
(* LRU purge on storage pressure and a periodic background sweep.          *)
(*                                                                         *)
(* The model follows the cache engine of cache/cache.go (Set, Get, Del,    *)
(* PurgeDB, clearExpiredItems, Close, Destroy), the purge helpers of       *)
(* cache/purge.go, the SQL statements of cache/queries/cache.sql, the      *)
(* retry helper, the transaction helper of database/database.go and the    *)
(* cron scheduler of schedule/scheduler.go.  Every SQL statement is one    *)
(* atomic step; the storage engine may fail any statement.                 *)
(***************************************************************************)
EXTENDS Integers, FiniteSets, Sequences, TLC

\* ------------------------------------------------------------------ bounds
MaxTime == 2

\* ------------------------------------------------------- program constants
\* helpers.Retry(ctx, retryFunc, 2): the attempt budget of Set
RetryAttempts == 2
\* purgePercent: 0.2 in NewCache, in tenths
DefaultPurgeTenths == 2

Procs == {"p1"}
\* the callers of the specification of concurrent calls
Callers == {"p1", "p2"}
Keys == {"k1", "k2"}
Values == {"v1", "v2"}
TTLs == {1}
\* purge fractions in tenths: 0.2 (the default), 0.5, and the invalid 1.1
\* and -0.1
PurgeTenths == {DefaultPurgeTenths, 5, 11, -1}
\* what the storage engine answers to a statement
Outcomes == {"ok", "full", "other"}

\* schedule.EveryMinute, the default interval, and a custom one
EveryMinute == "*/1 * * * *"
Every5Minutes == "*/5 * * * *"
Intervals == {EveryMinute, Every5Minutes}

NoKey == "nokey"
NoVal == "nil"

VARIABLES
    store,        \* committed rows of table cache
    now,          \* wall clock, time.Now().In(ch.timezone)
    engine,       \* storage handle: "none", "open", "closed"
    fileExists,   \* the backing file <path>_lpack_cache.db
    purgePercent, \* ch.purgePercent, in tenths
    sched,        \* scheduler: "none" (nil), "created", "running", "stopped", "panic"
    entries,      \* number of cron entries registered (cron.Entries())
    regPending,   \* createTaskCleaner's goroutine has not yet called Task
    wlock,        \* holder of SQLite's write lock: "free", a process, "leaked"
    tx,           \* per process: state of its sql.Tx
    pc,           \* per process: position in the running call
    loc,          \* per process: locals of the running call
    built,        \* NewCache: "no" (not called), "ok", "failed"
    written,      \* per key: what the last successful upsert wrote, until removed
    closedUse,    \* the sweep issued a statement against a closed handle
    syncInterval, \* ch.syncInterval, the configured interval of the sweep
    specs,        \* the interval specs of the registered cron entries
    pragmas,      \* Database: the pragma statements sent to its engine, in order
    dbres,        \* Database: what its last setter returned
    db            \* NewDatabase with options: its step, arguments and result

vars == <<store, now, engine, fileExists, purgePercent, sched, entries,
          regPending, wlock, tx, pc, loc, built, written, closedUse,
          syncInterval, specs, pragmas, dbres, db>>


\* ---------------------------------------------------------------- the table
Row(k, v, e, la) == [key |-> k, value |-> v, expires_at |-> e, last_accessed_at |-> la]

RowsOf(rows, k) == {r \in rows : r.key = k}

\* UpsertCache written with ON CONFLICT (key) DO NOTHING: an existing row stays
UpsertCacheDoNothing(rows, k, v, e, la) ==
    IF RowsOf(rows, k) # {} THEN rows ELSE rows \cup {Row(k, v, e, la)}

\* UpsertCache written as a plain INSERT on a table without the primary key
UpsertCacheInsertOnly(rows, k, v, e, la) == rows \cup {Row(k, v, e, la)}

\* UpsertCache whose ON CONFLICT clause updates the value only
UpsertCacheValueOnly(rows, k, v, e, la) ==
    IF RowsOf(rows, k) = {} THEN rows \cup {Row(k, v, e, la)}
    ELSE {IF r.key = k THEN [r EXCEPT !.value = v] ELSE r : r \in rows}

\* UpsertCache: INSERT ... ON CONFLICT (key) DO UPDATE SET value, expires_at,
\* last_accessed_at = excluded.*
UpsertCache(rows, k, v, e, la) ==
    {r \in rows : r.key # k} \cup {Row(k, v, e, la)}

\* GetValue written with expires_at >= ?
GetValueGte(rows, k, t) ==
    {r.value : r \in {x \in rows : x.key = k /\ x.expires_at >= t}}

\* GetValue written without the expiry condition
GetValueAnyExpiry(rows, k, t) == {r.value : r \in RowsOf(rows, k)}

\* GetValue: SELECT value FROM cache WHERE key = ? AND expires_at > ?
GetValue(rows, k, t) ==
    {r.value : r \in {x \in rows : x.key = k /\ x.expires_at > t}}

\* UpdateLastAccessedAt that touches no row
UpdateLastAccessedAtNone(rows, k, t) == rows

\* UpdateLastAccessedAt written as an upsert: a missing row is created
UpdateLastAccessedAtInsert(rows, k, t) ==
    IF RowsOf(rows, k) = {} THEN rows \cup {Row(k, NoVal, t, t)}
    ELSE {IF r.key = k THEN [r EXCEPT !.last_accessed_at = t] ELSE r : r \in rows}

\* UpdateLastAccessedAt written without its WHERE clause
UpdateLastAccessedAtEveryKey(rows, k, t) ==
    {[r EXCEPT !.last_accessed_at = t] : r \in rows}

\* UpdateLastAccessedAt: UPDATE cache SET last_accessed_at = ? WHERE key = ?
UpdateLastAccessedAt(rows, k, t) ==
    {IF r.key = k THEN [r EXCEPT !.last_accessed_at = t] ELSE r : r \in rows}

\* DeleteKey written without its WHERE clause
DeleteKeyAll(rows, k) == {}

\* DeleteKey: DELETE FROM cache WHERE key = ?
DeleteKey(rows, k) == {r \in rows : r.key # k}

\* CountEntries: SELECT COUNT(*) FROM cache
CountEntries(rows) == Cardinality(rows)

\* the subquery of DeleteKeys: SELECT key FROM cache ORDER BY last_accessed_at
\* ASC LIMIT ?; rows that tie on last_accessed_at come in any order
SelectKeysToDelete(rows, limit) ==
    LET n == IF limit < Cardinality(rows) THEN limit ELSE Cardinality(rows)
    IN  {{x.key : x \in S} : S \in {T \in SUBSET rows :
            /\ Cardinality(T) = n
            /\ \A a \in T : \A b \in rows \ T :
                   a.last_accessed_at <= b.last_accessed_at}}

\* DeleteKeys: DELETE FROM cache WHERE key IN (subquery); keys is the
\* subquery's result
DeleteKeys(rows, keys) == {r \in rows : r.key \notin keys}

\* the latest last_accessed_at among rows (0 for none)
MaxAccess(rows) ==
    IF rows = {} THEN 0
    ELSE CHOOSE m \in {r.last_accessed_at : r \in rows} :
             \A r \in rows : r.last_accessed_at <= m

\* DeleteExpiredCache written with expires_at < ?
DeleteExpiredCacheLt(rows, t) == {r \in rows : ~(r.expires_at < t)}

\* DeleteExpiredCache: DELETE FROM cache WHERE expires_at <= ?
DeleteExpiredCache(rows, t) == {r \in rows : ~(r.expires_at <= t)}

\* totalEntriesToDelete := int64(float64(totalEntries) * percent); the
\* conversion truncates, percent is kept in tenths
TotalEntriesToDelete(total, tenths) == (total * tenths) \div 10

\* the range check written without its upper bound
InvalidPercentNegative(tenths) == tenths < 0

\* percent < 0 || percent > 1
InvalidPercent(tenths) == tenths < 0 \/ tenths > 10

\* database.IsDatabaseFullError: the error text contains "database or disk is
\* full"; wrapping with %w keeps the text, so the kind decides
IsDatabaseFullError(err) == err = "full"

\* a context whose Done channel never delivers
CtxNeverDone(c) == FALSE

\* case <-ctx.Done(): the caller's context has been cancelled
CtxDone(c) == c = "cancelled"

\* ------------------------------------------------------------- the locals
IdleLoc == [op |-> "none", key |-> NoKey, val |-> NoVal, ttl |-> 0,
            i |-> 0, ups |-> 0, purges |-> 0, total |-> 0, aff |-> 0,
            victims |-> {}, vmax |-> 0, res |-> NoVal, want |-> NoVal,
            err |-> "nil", errsrc |-> "none", conc |-> FALSE,
            t |-> -1, ctx |-> "live", overdue |-> FALSE, exp |-> -1]

NoWrite == [ok |-> FALSE, value |-> NoVal, expires_at |-> 0]

\* what the engine can answer to the upsert of process p: a closed handle and
\* a write lock held by someone else only give an error
UpsertOutcomes(p) ==
    IF engine # "open" \/ wlock \notin {"free", p} THEN {"other"} ELSE Outcomes

\* what the engine can answer to any other write statement of process p
WriteOutcomes(p) ==
    IF engine # "open" \/ wlock \notin {"free", p} THEN {"other"} ELSE {"ok", "other"}

\* what the engine can answer to a read statement
ReadOutcomes == IF engine # "open" THEN {"other"} ELSE {"ok", "other"}

\* a statement that is given the caller's ctx (QueryRowContext, ExecContext)
\* answers the context's error once that ctx is cancelled, else one of outs
CtxOutcomes(p, outs) == IF CtxDone(loc[p].ctx) THEN {"canceled"} ELSE outs

\* a commit that leaves the snapshots of the open transactions as they are
CommittedNoStale(p) == tx

\* a commit by process p makes the read snapshot of every other open
\* transaction stale
Committed(p) == [q \in DOMAIN tx |-> IF q # p /\ tx[q] = "read" THEN "stale" ELSE tx[q]]

\* a key whose rows a statement removed has no recorded write any more
Forget(rows) == [k \in Keys |-> IF RowsOf(rows, k) = {} THEN NoWrite ELSE written[k]]

\* a configuration nothing was written to: config{}
ZeroCfg == [pageSize |-> 0, cacheSize |-> 0, dbSize |-> 0]

\* NewDatabase has not been called
NoDb == [step |-> "none", opts |-> ZeroCfg, with |-> "none",
         engine |-> "none", cfg |-> ZeroCfg, err |-> "nil"]

\* no setter of the database has returned yet
NoDbRes == [op |-> "none", arg |-> 0, err |-> "nil"]

\* ------------------------------------------------------------------- Init
Init ==
    /\ store = {}
    /\ now = 0
    /\ engine = "none"
    /\ fileExists = FALSE
    /\ purgePercent = DefaultPurgeTenths
    /\ sched = "none"
    /\ entries = 0
    /\ regPending = FALSE
    /\ wlock = "free"
    /\ tx = [p \in Procs |-> "none"]
    /\ pc = [p \in Procs |-> "idle"]
    /\ loc = [p \in Procs |-> IdleLoc]
    /\ built = "no"
    /\ written = [k \in Keys |-> NoWrite]
    /\ closedUse = FALSE
    /\ syncInterval = EveryMinute
    /\ specs = {}
    /\ pragmas = <<>>
    /\ dbres = NoDbRes
    /\ db = NoDb


\* ----------------------------------------------------------- construction
\* NewCache: options, setupEngine, setupDatabase, setupTable,
\* startSyncClearByTTL.  failAt names the step the engine fails, if any; a
\* failure after setupEngine returns the error with the engine left as it is.
NewCacheWith(pct, failAt, interval) ==
    /\ built = "no"
    /\ purgePercent' = pct
    /\ syncInterval' = interval
    /\ IF failAt = "engine"
       THEN /\ built' = "failed"
            /\ UNCHANGED <<engine, fileExists, sched, regPending>>
       ELSE /\ engine' = "open"
            /\ fileExists' = TRUE
            /\ IF failAt \in {"database", "table"}
               THEN /\ built' = "failed"
                    /\ UNCHANGED <<sched, regPending>>
               ELSE IF failAt = "scheduler"
               THEN \* startSyncClearByTTL: NewScheduler returned (nil, err);
                    \* ch.scheduler = nil, createTaskCleaner is called all
                    \* the same, and the error is returned after it
                    /\ built' = "failed"
                    /\ regPending' = TRUE
                    /\ UNCHANGED sched
               ELSE \* startSyncClearByTTL: NewScheduler, then createTaskCleaner
                    \* starts the goroutine that registers the task
                    /\ built' = "ok"
                    /\ sched' = "created"
                    /\ regPending' = TRUE
    /\ UNCHANGED <<store, now, entries, specs, wlock, tx, pc, loc, written,
                   closedUse, pragmas, dbres, db>>

\* NewCache with the options the callers of this model pass: a purge fraction
\* and no sync interval, which leaves the default
NewCache(pct, failAt) == NewCacheWith(pct, failAt, EveryMinute)

\* the goroutine of createTaskCleaner: scheduler.Task(EveryMinute,
\* clearExpiredItems) adds one cron entry; nothing starts the cron
Task ==
    /\ regPending
    /\ regPending' = FALSE
    /\ IF sched = "none"
       THEN \* the scheduler is nil: the method call panics in the goroutine
            /\ sched' = "panic"
            /\ UNCHANGED <<entries, specs>>
       ELSE /\ entries' = entries + 1
            /\ specs' = specs \cup {EveryMinute}
            /\ UNCHANGED sched
    /\ UNCHANGED <<store, now, engine, fileExists, purgePercent, syncInterval, wlock, tx,
                   pc, loc, built, pragmas, dbres, db, written, closedUse>>

\* scheduler.HasTasks: len(cron.Entries()) > 0
HasTasks == entries > 0

\* the body of the scheduled task, clearExpiredItems: one DeleteExpiredCache
\* statement at the task's own now; an error is printed and dropped
ClearExpiredItems(out) ==
    /\ closedUse' = (closedUse \/ engine = "closed")
    /\ IF out = "ok"
       THEN /\ store' = DeleteExpiredCache(store, now)
            /\ written' = Forget(store')
            /\ tx' = Committed("cron")
       ELSE UNCHANGED <<store, written, tx>>

\* purgeExpiredItensCache: cron.AddAndExec runs the task once and registers
\* it, then cron.Start
PurgeExpiredItensCache(out) ==
    /\ built = "ok"
    /\ sched = "created"
    /\ out \in WriteOutcomes("cron")
    /\ ClearExpiredItems(out)
    /\ entries' = entries + 1
    /\ specs' = specs \cup {syncInterval}
    /\ sched' = "running"
    /\ UNCHANGED <<now, engine, fileExists, purgePercent, syncInterval, regPending, wlock,
                   pc, loc, built, pragmas, dbres, db>>

\* a tick whose task error stops the cron
TickStopsOnError(out) ==
    /\ sched = "running"
    /\ HasTasks
    /\ out \in WriteOutcomes("cron")
    /\ ClearExpiredItems(out)
    /\ sched' = IF out = "ok" THEN sched ELSE "stopped"
    /\ UNCHANGED <<now, engine, fileExists, purgePercent, syncInterval, entries,
                   specs, regPending, wlock, pc, loc, built, pragmas, dbres, db>>

\* one tick of a running cron: every entry runs the task; the wrapper that
\* scheduler.Task registers prints the task's error and returns
Tick(out) ==
    /\ sched = "running"
    /\ HasTasks
    /\ out \in WriteOutcomes("cron")
    /\ ClearExpiredItems(out)
    /\ UNCHANGED <<now, engine, fileExists, purgePercent, syncInterval, sched, entries, specs,
                   regPending, wlock, pc, loc, built, pragmas, dbres, db>>

\* the wall clock advances
AdvanceClock ==
    /\ now < MaxTime
    /\ now' = now + 1
    /\ UNCHANGED <<store, engine, fileExists, purgePercent, syncInterval, sched, entries, specs,
                   regPending, wlock, tx, pc, loc, built, pragmas, dbres, db, written, closedUse>>

\* ---------------------------------------------------------------- calls
\* a caller enters a method of the cache with its arguments; callers use the
\* cache until they close it, not after.  conc records that another caller's
\* call was in flight at that moment.
Call(p, op, k, v, ttl, first) ==
    /\ built = "ok"
    /\ engine = "open"
    /\ pc[p] = "idle"
    /\ pc' = [pc EXCEPT ![p] = first]
    /\ loc' = [loc EXCEPT ![p] = [IdleLoc EXCEPT !.op = op, !.key = k,
                                      !.val = v, !.ttl = ttl,
                                      !.conc = \E q \in DOMAIN pc \ {p} :
                                                  pc[q] \notin {"idle", "done"}]]
    /\ UNCHANGED <<store, now, engine, fileExists, purgePercent, syncInterval, sched, entries, specs,
                   regPending, wlock, tx, built, pragmas, dbres, db, written, closedUse>>

\* the call has returned and the caller is free for the next one; a
\* transaction handle the call left open is lost with its locals
Return(p) ==
    /\ pc[p] = "done"
    /\ pc' = [pc EXCEPT ![p] = "idle"]
    /\ loc' = [loc EXCEPT ![p] = IdleLoc]
    /\ tx' = [tx EXCEPT ![p] = "none"]
    /\ UNCHANGED <<store, now, engine, fileExists, purgePercent, syncInterval, sched, entries, specs,
                   regPending, wlock, built, pragmas, dbres, db, written, closedUse>>

\* ------------------------------------------------------------------- Set
\* helpers.Retry: the attempt that just failed with l.err was attempt l.i;
\* another attempt follows while i < retryAttempts, else the last error returns
Retry(p, l) ==
    LET n == [l EXCEPT !.i = @ + 1]
    IN  /\ loc' = [loc EXCEPT ![p] = n]
        /\ pc' = [pc EXCEPT ![p] = IF n.i < RetryAttempts THEN "set_upsert" ELSE "done"]

\* helpers.Retry at the top of its loop: case <-ctx.Done() returns ctx.Err()
\* and no attempt is made
RetryCtxDone(p) ==
    /\ pc[p] = "set_upsert"
    /\ loc[p].t = -1
    /\ CtxDone(loc[p].ctx)
    /\ pc' = [pc EXCEPT ![p] = "done"]
    /\ loc' = [loc EXCEPT ![p].err = "canceled", ![p].errsrc = "ctx"]
    /\ UNCHANGED <<store, now, engine, fileExists, purgePercent, syncInterval,
                   sched, entries, specs, regPending, wlock, tx, built, pragmas,
                   dbres, db, written, closedUse>>

\* an attempt of Set reads the clock: now := time.Now().In(ch.timezone)
ReadClockSet(p) ==
    /\ pc[p] = "set_upsert"
    /\ loc[p].t = -1
    /\ ~CtxDone(loc[p].ctx)
    /\ loc' = [loc EXCEPT ![p].t = now]
    /\ UNCHANGED <<store, now, engine, fileExists, purgePercent, syncInterval,
                   sched, entries, specs, regPending, wlock, tx, pc, built,
                   pragmas, dbres, db, written, closedUse>>

\* Get reads the clock for the parameters of its next statement:
\* ExpiresAt / LastAccessedAt: time.Now().In(ch.timezone)
ReadClockGet(p) ==
    /\ pc[p] \in {"get_lookup", "get_touch"}
    /\ loc[p].t = -1
    /\ loc' = [loc EXCEPT ![p].t = now]
    /\ UNCHANGED <<store, now, engine, fileExists, purgePercent, syncInterval,
                   sched, entries, specs, regPending, wlock, tx, pc, built,
                   pragmas, dbres, db, written, closedUse>>

\* retryFunc of Set with the clock it read, t: expiresAt = t.Add(ttl),
\* UpsertCache (on context.Background()); a storage-full error enters PurgeDB,
\* any other error is returned to Retry
SetUpsertAt(p, out, t) ==
    /\ pc[p] = "set_upsert"
    /\ out \in UpsertOutcomes(p)
    /\ LET l == [loc[p] EXCEPT !.ups = @ + 1,
                                !.aff = Cardinality(RowsOf(store, loc[p].key)),
                                !.t = -1]
       IN  IF out = "ok"
           THEN /\ store' = UpsertCache(store, l.key, l.val, t + l.ttl, t)
                /\ written' = [written EXCEPT ![l.key] =
                                  [ok |-> TRUE, value |-> l.val,
                                   expires_at |-> t + l.ttl]]
                /\ tx' = Committed(p)
                /\ loc' = [loc EXCEPT ![p] = [l EXCEPT !.err = "nil", !.errsrc = "none"]]
                /\ pc' = [pc EXCEPT ![p] = "done"]
           ELSE /\ UNCHANGED <<store, written, tx>>
                /\ IF IsDatabaseFullError(out)
                   THEN /\ loc' = [loc EXCEPT ![p] = [l EXCEPT !.purges = @ + 1,
                                       !.err = out, !.errsrc = "upsert"]]
                        /\ pc' = [pc EXCEPT ![p] = "pdb_begin"]
                   ELSE Retry(p, [l EXCEPT !.err = out, !.errsrc = "upsert"])
    /\ UNCHANGED <<now, engine, fileExists, purgePercent, syncInterval, sched, entries, specs,
                   regPending, wlock, built, pragmas, dbres, db, closedUse>>

\* an attempt of Set whose clock read and upsert happen at the same instant,
\* after Retry found the context live
SetUpsert(p, out) ==
    /\ loc[p].t = -1
    /\ ~CtxDone(loc[p].ctx)
    /\ SetUpsertAt(p, out, now)

\* the caller cancels the context it passed to the call in flight
Cancel(p) ==
    /\ pc[p] \notin {"idle", "done"}
    /\ loc[p].ctx = "live"
    /\ loc' = [loc EXCEPT ![p].ctx = "cancelled"]
    /\ UNCHANGED <<store, now, engine, fileExists, purgePercent, syncInterval,
                   sched, entries, specs, regPending, wlock, tx, pc, built,
                   pragmas, dbres, db, written, closedUse>>

\* the transaction of a purge has been open for longer than ch.purgeTimeout;
\* the field is set in NewCache and by WithPurgeTimeout and read nowhere, so
\* nothing but the record of it changes
PurgeTimeoutElapsed(p) ==
    /\ pc[p] \in {"purge_count", "purge_delete", "pdb_vacuum", "pdb_commit", "pi_end"}
    /\ ~loc[p].overdue
    /\ loc' = [loc EXCEPT ![p].overdue = TRUE]
    /\ UNCHANGED <<store, now, engine, fileExists, purgePercent, syncInterval,
                   sched, entries, specs, regPending, wlock, tx, pc, built,
                   pragmas, dbres, db, written, closedUse>>


\* ----------------------------------------------------------------- purge
\* what Begin can answer
BeginOutcomes == IF engine # "open" THEN {"other"} ELSE {"ok", "other"}

\* the transaction of process p ends (Commit or Rollback): its lock is released
EndTx(p) ==
    /\ tx' = [tx EXCEPT ![p] = "none"]
    /\ wlock' = IF wlock = p THEN "free" ELSE wlock

\* the call returns while its transaction is still open: nothing ends it, and
\* the write lock it took stays taken
LeaveTxOpen(p) ==
    /\ UNCHANGED tx
    /\ wlock' = IF wlock = p THEN "leaked" ELSE wlock

\* PurgeDB has returned purgeErr into retryFunc: a purge error is returned
\* wrapped; after a successful purge err is nil and retryFunc returns
\* fmt.Errorf("error executing query: %w", nil), still an error
PurgeDBReturn(p, l, purgeErr) ==
    LET m == [l EXCEPT !.total = 0, !.victims = {}, !.vmax = 0, !.overdue = FALSE]
    IN  IF purgeErr = "nil"
        THEN Retry(p, [m EXCEPT !.err = "nilwrap", !.errsrc = "upsert"])
        ELSE Retry(p, [m EXCEPT !.err = purgeErr, !.errsrc = "purge"])

\* PurgeDB: tx, err := ch.engine.Begin()
PurgeDBBegin(p, out) ==
    /\ pc[p] = "pdb_begin"
    /\ out \in BeginOutcomes
    /\ IF out = "ok"
       THEN /\ tx' = [tx EXCEPT ![p] = "open"]
            /\ pc' = [pc EXCEPT ![p] = "purge_count"]
            /\ UNCHANGED loc
       ELSE /\ PurgeDBReturn(p, loc[p], out)
            /\ UNCHANGED tx
    /\ UNCHANGED <<store, now, engine, fileExists, purgePercent, syncInterval, sched, entries, specs,
                   regPending, wlock, built, pragmas, dbres, db, written, closedUse>>

\* PurgeItens: Database.ExecWithTx begins the transaction
ExecWithTxBegin(p, out) ==
    /\ pc[p] = "pi_begin"
    /\ out \in BeginOutcomes
    /\ IF out = "ok"
       THEN /\ tx' = [tx EXCEPT ![p] = "open"]
            /\ pc' = [pc EXCEPT ![p] = "purge_count"]
            /\ UNCHANGED loc
       ELSE /\ pc' = [pc EXCEPT ![p] = "done"]
            /\ loc' = [loc EXCEPT ![p].err = out, ![p].errsrc = "purge"]
            /\ UNCHANGED tx
    /\ UNCHANGED <<store, now, engine, fileExists, purgePercent, syncInterval, sched, entries, specs,
                   regPending, wlock, built, pragmas, dbres, db, written, closedUse>>

\* the purge body failed with err.  PurgeDB returns the error; its deferred
\* function tests the outer err, which Begin left nil, so nothing rolls back.
\* ExecWithTx rolls back and returns the error.
PurgeFail(p, l, err) ==
    IF l.op = "Set"
    THEN /\ LeaveTxOpen(p)
         /\ PurgeDBReturn(p, l, err)
    ELSE /\ EndTx(p)
         /\ pc' = [pc EXCEPT ![p] = "done"]
         /\ loc' = [loc EXCEPT ![p] = [l EXCEPT !.err = err, !.errsrc = "purge"]]

\* the purge body returned nil: PurgeDB goes on to the vacuum, ExecWithTx to
\* the end of the transaction
PurgeOK(p, l) ==
    /\ loc' = [loc EXCEPT ![p] = l]
    /\ pc' = [pc EXCEPT ![p] = IF l.op = "Set" THEN "pdb_vacuum" ELSE "pi_end"]

\* PurgeWithTransaction / purgeEntriesByPercentage: the range check of percent,
\* CountEntries, totalEntriesToDelete, and the early return when it is 0
PurgeCount(p, out) ==
    /\ pc[p] = "purge_count"
    /\ out \in CtxOutcomes(p, ReadOutcomes)
    /\ IF InvalidPercent(purgePercent)
       THEN PurgeFail(p, loc[p], "invalid")
       ELSE IF out # "ok"
       THEN PurgeFail(p, loc[p], out)
       ELSE LET l == [loc[p] EXCEPT !.total = CountEntries(store)]
            IN  IF TotalEntriesToDelete(l.total, purgePercent) = 0
                THEN /\ PurgeOK(p, l)
                     /\ tx' = [tx EXCEPT ![p] = "read"]
                     /\ UNCHANGED wlock
                ELSE /\ loc' = [loc EXCEPT ![p] = l]
                     /\ pc' = [pc EXCEPT ![p] = "purge_delete"]
                     /\ tx' = [tx EXCEPT ![p] = "read"]
                     /\ UNCHANGED wlock
    /\ UNCHANGED <<store, now, engine, fileExists, purgePercent, syncInterval, sched, entries, specs,
                   regPending, built, pragmas, dbres, db, written, closedUse>>

\* DeleteKeys inside the transaction: it takes the write lock and its effect
\* stays private to the transaction; a stale snapshot makes it fail
PurgeDelete(p, out) ==
    /\ pc[p] = "purge_delete"
    /\ out \in CtxOutcomes(p, IF tx[p] = "stale" THEN {"other"} ELSE WriteOutcomes(p))
    /\ IF out # "ok"
       THEN PurgeFail(p, loc[p], out)
       ELSE \E keys \in SelectKeysToDelete(store,
                           TotalEntriesToDelete(loc[p].total, purgePercent)) :
               /\ PurgeOK(p, [loc[p] EXCEPT !.victims = keys,
                                  !.vmax = MaxAccess({r \in store : r.key \in keys})])
               /\ tx' = [tx EXCEPT ![p] = "write"]
               /\ wlock' = p
    /\ UNCHANGED <<store, now, engine, fileExists, purgePercent, syncInterval, sched, entries, specs,
                   regPending, built, pragmas, dbres, db, written, closedUse>>

\* PurgeDB: VacuumWithTransaction, tx.Exec("VACUUM;")
VacuumWithTransaction(p, out) ==
    /\ pc[p] = "pdb_vacuum"
    /\ out \in (IF engine # "open" THEN {"other"} ELSE Outcomes)
    /\ IF out = "ok"
       THEN /\ pc' = [pc EXCEPT ![p] = "pdb_commit"]
            /\ UNCHANGED <<loc, tx, wlock>>
       ELSE /\ LeaveTxOpen(p)
            /\ PurgeDBReturn(p, loc[p], out)
    /\ UNCHANGED <<store, now, engine, fileExists, purgePercent, syncInterval, sched, entries, specs,
                   regPending, built, pragmas, dbres, db, written, closedUse>>

\* PurgeDB: tx.Commit() publishes the delete; a failed commit ends the
\* transaction without it
PurgeDBCommit(p, out) ==
    /\ pc[p] = "pdb_commit"
    /\ out \in (IF engine # "open" THEN {"other"} ELSE {"ok", "other"})
    /\ tx' = [(IF out = "ok" /\ loc[p].victims # {} THEN Committed(p) ELSE tx)
                 EXCEPT ![p] = "none"]
    /\ wlock' = IF wlock = p THEN "free" ELSE wlock
    /\ IF out = "ok"
       THEN /\ store' = DeleteKeys(store, loc[p].victims)
            /\ written' = Forget(store')
            /\ PurgeDBReturn(p, loc[p], "nil")
       ELSE /\ UNCHANGED <<store, written>>
            /\ PurgeDBReturn(p, loc[p], out)
    /\ UNCHANGED <<now, engine, fileExists, purgePercent, syncInterval, sched, entries, specs,
                   regPending, built, pragmas, dbres, db, closedUse>>

\* ExecWithTx after fn returned nil: rollbackErr := tx.Rollback(); the delete
\* is discarded, and a rollback error is returned joined with the nil err
ExecWithTxEnd(p, out) ==
    /\ pc[p] = "pi_end"
    /\ out \in {"ok", "other"}
    /\ EndTx(p)
    /\ IF out = "ok"
       THEN /\ pc' = [pc EXCEPT ![p] = "pi_vacuum"]
            /\ UNCHANGED loc
       ELSE /\ pc' = [pc EXCEPT ![p] = "done"]
            /\ loc' = [loc EXCEPT ![p].err = out, ![p].errsrc = "purge"]
    /\ UNCHANGED <<store, now, engine, fileExists, purgePercent, syncInterval, sched, entries, specs,
                   regPending, built, pragmas, dbres, db, written, closedUse>>

\* PurgeItens: ch.Database.Vacuum(ctx) on the engine, then return
PurgeItensVacuum(p, out) ==
    /\ pc[p] = "pi_vacuum"
    /\ out \in CtxOutcomes(p, WriteOutcomes(p))
    /\ pc' = [pc EXCEPT ![p] = "done"]
    /\ loc' = [loc EXCEPT ![p].err = IF out = "ok" THEN "nil" ELSE out,
                          ![p].errsrc = IF out = "ok" THEN "none" ELSE "vacuum"]
    /\ UNCHANGED <<store, now, engine, fileExists, purgePercent, syncInterval, sched, entries, specs,
                   regPending, wlock, tx, built, pragmas, dbres, db, written, closedUse>>


\* ------------------------------------------------------------------- Get
\* Get with the clock it read, t: GetValue with ExpiresAt = t; sql.ErrNoRows
\* gives (nil, nil), any other error is returned
GetLookupAt(p, out, t) ==
    /\ pc[p] = "get_lookup"
    /\ out \in CtxOutcomes(p, ReadOutcomes)
    /\ LET k == loc[p].key
           w == IF written[k].ok /\ t < written[k].expires_at
                THEN written[k].value ELSE NoVal
           l == [loc[p] EXCEPT !.want = w, !.t = -1]
       IN  IF out # "ok"
           THEN /\ pc' = [pc EXCEPT ![p] = "done"]
                /\ loc' = [loc EXCEPT ![p] = [l EXCEPT !.err = out, !.errsrc = "lookup"]]
           ELSE IF GetValue(store, k, t) = {}
           THEN /\ pc' = [pc EXCEPT ![p] = "done"]
                /\ loc' = [loc EXCEPT ![p] = l]
           ELSE \E v \in GetValue(store, k, t) :
                /\ pc' = [pc EXCEPT ![p] = "get_touch"]
                /\ loc' = [loc EXCEPT ![p] = [l EXCEPT !.res = v, !.aff = 1]]
    /\ UNCHANGED <<store, now, engine, fileExists, purgePercent, syncInterval, sched, entries, specs,
                   regPending, wlock, tx, built, pragmas, dbres, db, written, closedUse>>

\* the lookup of a Get whose clock read and statement happen at the same
\* instant
GetLookup(p, out) == loc[p].t = -1 /\ GetLookupAt(p, out, now)

\* Get after a hit, with the clock it read afresh, t: UpdateLastAccessedAt;
\* its error is printed (errsrc records it) and the value is returned with a
\* nil error; aff is the number of rows the UPDATE changed
GetTouchAt(p, out, t) ==
    /\ pc[p] = "get_touch"
    /\ out \in CtxOutcomes(p, WriteOutcomes(p))
    /\ IF out = "ok"
       THEN /\ store' = UpdateLastAccessedAt(store, loc[p].key, t)
            /\ tx' = Committed(p)
       ELSE UNCHANGED <<store, tx>>
    /\ loc' = [loc EXCEPT ![p].t = -1,
                          ![p].errsrc = IF out = "ok" THEN @ ELSE "touch",
                          ![p].aff = IF out = "ok"
                                     THEN Cardinality(RowsOf(store, loc[p].key))
                                     ELSE @]
    /\ pc' = [pc EXCEPT ![p] = "done"]
    /\ UNCHANGED <<now, engine, fileExists, purgePercent, syncInterval, sched, entries, specs,
                   regPending, wlock, built, pragmas, dbres, db, written, closedUse>>

\* the access-time update of a Get whose clock read and statement happen at
\* the same instant
GetTouch(p, out) == loc[p].t = -1 /\ GetTouchAt(p, out, now)

\* ------------------------------------------------------------------- Del
\* Del: DeleteKey; an error is returned wrapped
Del(p, out) ==
    /\ pc[p] = "del"
    /\ out \in CtxOutcomes(p, WriteOutcomes(p))
    /\ IF out = "ok"
       THEN /\ store' = DeleteKey(store, loc[p].key)
            /\ written' = Forget(store')
            /\ tx' = Committed(p)
            /\ loc' = [loc EXCEPT ![p].aff = Cardinality(RowsOf(store, loc[p].key))]
       ELSE /\ UNCHANGED <<store, written, tx>>
            /\ loc' = [loc EXCEPT ![p].err = out, ![p].errsrc = "delete"]
    /\ pc' = [pc EXCEPT ![p] = "done"]
    /\ UNCHANGED <<now, engine, fileExists, purgePercent, syncInterval, sched, entries, specs,
                   regPending, wlock, built, pragmas, dbres, db, closedUse>>

\* ------------------------------------------------------- PurgeExpiredItems
\* the sweep reads the clock for the parameter of its statement:
\* time.Now().In(ch.timezone)
ReadClockSweep(p) ==
    /\ pc[p] = "reclaim"
    /\ loc[p].t = -1
    /\ loc' = [loc EXCEPT ![p].t = now]
    /\ UNCHANGED <<store, now, engine, fileExists, purgePercent, syncInterval,
                   sched, entries, specs, regPending, wlock, tx, pc, built,
                   pragmas, dbres, db, written, closedUse>>

\* a sweep whose statement takes the clock of the moment it runs, not the
\* reading the sweep made
PurgeExpiredItemsAtRun(p, out, t) ==
    /\ pc[p] = "reclaim"
    /\ out \in CtxOutcomes(p, WriteOutcomes(p))
    /\ IF out = "ok"
       THEN /\ store' = DeleteExpiredCache(store, now)
            /\ written' = Forget(store')
            /\ tx' = Committed(p)
            /\ loc' = [loc EXCEPT ![p].aff = Cardinality(store) - Cardinality(store'),
                                  ![p].t = -1]
       ELSE /\ UNCHANGED <<store, written, tx>>
            /\ loc' = [loc EXCEPT ![p].err = out, ![p].errsrc = "reclaim",
                                  ![p].t = -1]
    /\ pc' = [pc EXCEPT ![p] = "done"]
    /\ UNCHANGED <<now, engine, fileExists, purgePercent, syncInterval, sched, entries, specs,
                   regPending, wlock, built, pragmas, dbres, db, closedUse>>

\* the sweep with the clock it read, t: DeleteExpiredCache with that t; an
\* error is returned wrapped
PurgeExpiredItemsAt(p, out, t) ==
    /\ pc[p] = "reclaim"
    /\ out \in CtxOutcomes(p, WriteOutcomes(p))
    /\ IF out = "ok"
       THEN /\ store' = DeleteExpiredCache(store, t)
            /\ written' = Forget(store')
            /\ tx' = Committed(p)
            /\ loc' = [loc EXCEPT ![p].aff = Cardinality(store) - Cardinality(store'),
                                  ![p].t = -1]
       ELSE /\ UNCHANGED <<store, written, tx>>
            /\ loc' = [loc EXCEPT ![p].err = out, ![p].errsrc = "reclaim",
                                  ![p].t = -1]
    /\ pc' = [pc EXCEPT ![p] = "done"]
    /\ UNCHANGED <<now, engine, fileExists, purgePercent, syncInterval, sched, entries, specs,
                   regPending, wlock, built, pragmas, dbres, db, closedUse>>

\* PurgeExpiredItems whose clock read and statement happen at the same
\* instant
PurgeExpiredItems(p, out) == loc[p].t = -1 /\ PurgeExpiredItemsAt(p, out, now)

\* --------------------------------------------------------- Close, Destroy
\* a Close whose error Destroy does not look at
CloseErrorIgnored(p, out) ==
    /\ pc[p] \in {"close", "destroy_close"}
    /\ out \in {"ok", "other"}
    /\ engine' = "closed"
    /\ wlock' = "free"
    /\ tx' = [q \in DOMAIN tx |-> "none"]
    /\ pc' = [pc EXCEPT ![p] = IF pc[p] = "destroy_close"
                                THEN "destroy_remove" ELSE "done"]
    /\ loc' = [loc EXCEPT ![p].err = IF out = "ok" THEN "nil" ELSE out,
                          ![p].errsrc = IF out = "ok" THEN "none" ELSE "close"]
    /\ UNCHANGED <<store, now, fileExists, purgePercent, syncInterval, sched,
                   entries, specs, regPending, built, pragmas, dbres, db, written,
                   closedUse>>

\* Close: return ch.engine.Close().  The handle is closed whatever Close
\* answers; the connections go, and with them every open transaction.
Close(p, out) ==
    /\ pc[p] \in {"close", "destroy_close"}
    /\ out \in {"ok", "other"}
    /\ engine' = "closed"
    /\ wlock' = "free"
    /\ tx' = [q \in DOMAIN tx |-> "none"]
    /\ IF out = "ok" /\ pc[p] = "destroy_close"
       THEN /\ pc' = [pc EXCEPT ![p] = "destroy_remove"]
            /\ UNCHANGED loc
       ELSE /\ pc' = [pc EXCEPT ![p] = "done"]
            /\ loc' = [loc EXCEPT ![p].err = IF out = "ok" THEN "nil" ELSE out,
                                  ![p].errsrc = IF out = "ok" THEN "none" ELSE "close"]
    /\ UNCHANGED <<store, now, fileExists, purgePercent, syncInterval, sched, entries, specs,
                   regPending, built, pragmas, dbres, db, written, closedUse>>

\* Destroy after Close returned nil: database.DeleteDatabase(ch.dsn), os.Remove
DeleteDatabase(p, out) ==
    /\ pc[p] = "destroy_remove"
    /\ out \in (IF fileExists THEN {"ok", "other"} ELSE {"other"})
    /\ IF out = "ok"
       THEN /\ fileExists' = FALSE
            /\ store' = {}
            /\ written' = [k \in Keys |-> NoWrite]
            /\ UNCHANGED loc
       ELSE /\ UNCHANGED <<fileExists, store, written>>
            /\ loc' = [loc EXCEPT ![p].err = out, ![p].errsrc = "remove"]
    /\ pc' = [pc EXCEPT ![p] = "done"]
    /\ UNCHANGED <<now, engine, purgePercent, syncInterval, sched, entries, specs, regPending, wlock,
                   tx, built, pragmas, dbres, db, closedUse>>

\* ------------------------------------------------------------------ Next
FailSteps == {"none", "engine", "database", "table", "scheduler"}

Next ==
    \/ \E pct \in PurgeTenths, f \in FailSteps : NewCache(pct, f)
    \/ Task
    \/ \E out \in Outcomes : PurgeExpiredItensCache(out)
    \/ \E out \in Outcomes : Tick(out)
    \/ AdvanceClock
    \/ \E p \in Procs, k \in Keys, v \in Values, t \in TTLs :
          Call(p, "Set", k, v, t, "set_upsert")
    \/ \E p \in Procs, k \in Keys : Call(p, "Get", k, NoVal, 0, "get_lookup")
    \/ \E p \in Procs, k \in Keys : Call(p, "Del", k, NoVal, 0, "del")
    \/ \E p \in Procs : Call(p, "PurgeItens", NoKey, NoVal, 0, "pi_begin")
    \/ \E p \in Procs : Call(p, "PurgeExpiredItems", NoKey, NoVal, 0, "reclaim")
    \/ \E p \in Procs : Call(p, "Close", NoKey, NoVal, 0, "close")
    \/ \E p \in Procs : Call(p, "Destroy", NoKey, NoVal, 0, "destroy_close")
    \/ \E p \in Procs : Return(p)
    \/ \E p \in Procs, out \in Outcomes :
          \/ SetUpsert(p, out)
          \/ PurgeDBBegin(p, out)
          \/ ExecWithTxBegin(p, out)
          \/ PurgeCount(p, out)
          \/ PurgeDelete(p, out)
          \/ VacuumWithTransaction(p, out)
          \/ PurgeDBCommit(p, out)
          \/ ExecWithTxEnd(p, out)
          \/ PurgeItensVacuum(p, out)
          \/ GetLookup(p, out)
          \/ GetTouch(p, out)
          \/ Del(p, out)
          \/ PurgeExpiredItems(p, out)
          \/ Close(p, out)
          \/ DeleteDatabase(p, out)

Spec == Init /\ [][Next]_vars

\* ------------------------------------------------------ concurrent callers
\* Two goroutines share one cache that NewCache built with its defaults and
\* whose sweep task is registered, and call Set, Get and Del on the same key.
\* NewCache never starts the cron, so no sweep runs beside them.  The store
\* has room: a statement succeeds or fails with a generic error, never
\* storage-full, so no purge runs.  A call reads the clock in one step and
\* sends the statement built from that reading in a later one, so the other
\* caller and the clock may move in between.
ConcKeys == {"k1"}
\* their time-to-live arguments
ConcTTLs == {1, 2}

InitConc ==
    /\ store = {}
    /\ now = 0
    /\ engine = "open"
    /\ fileExists = TRUE
    /\ purgePercent = DefaultPurgeTenths
    /\ sched = "created"
    /\ entries = 1
    /\ regPending = FALSE
    /\ wlock = "free"
    /\ tx = [p \in Callers |-> "none"]
    /\ pc = [p \in Callers |-> "idle"]
    /\ loc = [p \in Callers |-> IdleLoc]
    /\ built = "ok"
    /\ written = [k \in Keys |-> NoWrite]
    /\ closedUse = FALSE
    /\ syncInterval = EveryMinute
    /\ specs = {EveryMinute}
    /\ pragmas = <<>>
    /\ dbres = NoDbRes
    /\ db = NoDb

NextConc ==
    \/ AdvanceClock
    \/ \E p \in Callers, k \in ConcKeys, v \in Values, t \in ConcTTLs :
          Call(p, "Set", k, v, t, "set_upsert")
    \/ \E p \in Callers, k \in ConcKeys : Call(p, "Get", k, NoVal, 0, "get_lookup")
    \/ \E p \in Callers, k \in ConcKeys : Call(p, "Del", k, NoVal, 0, "del")
    \/ \E p \in Callers : Return(p)
    \/ \E p \in Callers : ReadClockSet(p)
    \/ \E p \in Callers : ReadClockGet(p)
    \/ \E p \in Callers, out \in {"ok", "other"} :
          \/ loc[p].t >= 0 /\ SetUpsertAt(p, out, loc[p].t)
          \/ loc[p].t >= 0 /\ GetLookupAt(p, out, loc[p].t)
          \/ loc[p].t >= 0 /\ GetTouchAt(p, out, loc[p].t)
          \/ Del(p, out)

SpecConc == InitConc /\ [][NextConc]_vars

\* ------------------------------------------------- cancellation and timeout
\* One caller uses a cache that NewCache built with WithPurgePercent(0.5) or
\* WithPurgePercent(1) and whose sweep task is registered (the cron is never
\* started).  It calls Set and PurgeItens and may cancel the context of the
\* call in flight; a purge may outlast the purge timeout.
InitCtx ==
    /\ store = {}
    /\ now = 0
    /\ engine = "open"
    /\ fileExists = TRUE
    /\ purgePercent \in {5, 10}
    /\ sched = "created"
    /\ entries = 1
    /\ regPending = FALSE
    /\ wlock = "free"
    /\ tx = [p \in Procs |-> "none"]
    /\ pc = [p \in Procs |-> "idle"]
    /\ loc = [p \in Procs |-> IdleLoc]
    /\ built = "ok"
    /\ written = [k \in Keys |-> NoWrite]
    /\ closedUse = FALSE
    /\ syncInterval = EveryMinute
    /\ specs = {EveryMinute}
    /\ pragmas = <<>>
    /\ dbres = NoDbRes
    /\ db = NoDb

NextCtx ==
    \/ AdvanceClock
    \/ \E p \in Procs, k \in Keys, t \in TTLs : Call(p, "Set", k, "v1", t, "set_upsert")
    \/ \E p \in Procs : Call(p, "PurgeItens", NoKey, NoVal, 0, "pi_begin")
    \/ \E p \in Procs : Return(p)
    \/ \E p \in Procs : Cancel(p)
    \/ \E p \in Procs : PurgeTimeoutElapsed(p)
    \/ \E p \in Procs : RetryCtxDone(p)
    \/ \E p \in Procs, out \in Outcomes \cup {"canceled"} :
          \/ SetUpsert(p, out)
          \/ PurgeDBBegin(p, out)
          \/ ExecWithTxBegin(p, out)
          \/ PurgeCount(p, out)
          \/ PurgeDelete(p, out)
          \/ VacuumWithTransaction(p, out)
          \/ PurgeDBCommit(p, out)
          \/ ExecWithTxEnd(p, out)
          \/ PurgeItensVacuum(p, out)

SpecCtx == InitCtx /\ [][NextCtx]_vars

\* ------------------------------------------------------- the sync interval
\* NewCache is called with or without WithSyncInterval; the sweep task is
\* registered by the goroutine of createTaskCleaner and, where the caller
\* runs it, by purgeExpiredItensCache.  One caller writes entries meanwhile.
NextSched ==
    \/ \E f \in FailSteps, iv \in Intervals :
          NewCacheWith(DefaultPurgeTenths, f, iv)
    \/ Task
    \/ \E out \in {"ok", "other"} : PurgeExpiredItensCache(out)
    \/ \E out \in {"ok", "other"} : Tick(out)
    \/ AdvanceClock
    \/ \E p \in Procs, k \in Keys, v \in Values, t \in TTLs :
          Call(p, "Set", k, v, t, "set_upsert")
    \/ \E p \in Procs : Return(p)
    \/ \E p \in Procs, out \in {"ok", "other"} : SetUpsert(p, out)

SpecSched == Init /\ [][NextSched]_vars

\* ------------------------------------------------ the database's settings
\* A database that NewDatabase opened, and a caller that tunes it through
\* its setters.  pragmas is the sequence of PRAGMA statements the engine was
\* sent, dbres what the last setter returned.
MaxPragmas == 2
\* the sizes the caller passes
Sizes == {-1, 0, 4096}
\* the engine runs a pragma or fails it
DbOutcomes == {"ok", "other"}

InitDb ==
    /\ store = {}
    /\ now = 0
    /\ engine = "open"
    /\ fileExists = TRUE
    /\ purgePercent = DefaultPurgeTenths
    /\ sched = "none"
    /\ entries = 0
    /\ regPending = FALSE
    /\ wlock = "free"
    /\ tx = [p \in Procs |-> "none"]
    /\ pc = [p \in Procs |-> "idle"]
    /\ loc = [p \in Procs |-> IdleLoc]
    /\ built = "no"
    /\ written = [k \in Keys |-> NoWrite]
    /\ closedUse = FALSE
    /\ syncInterval = EveryMinute
    /\ specs = {}
    /\ pragmas = <<>>
    /\ dbres = NoDbRes
    /\ db = NoDb

\* db.engine.ExecContext(ctx, "PRAGMA name = arg;") and the setter's return:
\* the engine's error wrapped, or nil
ExecPragma(op, name, arg, out, wrap) ==
    /\ engine = "open"
    /\ Len(pragmas) < MaxPragmas
    /\ out \in DbOutcomes
    /\ pragmas' = Append(pragmas, [name |-> name, arg |-> arg])
    /\ dbres' = [op |-> op, arg |-> arg, err |-> IF out = "ok" THEN "nil" ELSE wrap]
    /\ UNCHANGED db

\* a setter that returns its validation error without touching the engine
RejectSetting(op, arg, msg) ==
    /\ dbres' = [op |-> op, arg |-> arg, err |-> msg]
    /\ UNCHANGED <<pragmas, db>>

\* SetJournalModeWal: PRAGMA journal_mode=WAL
SetJournalModeWal(out) ==
    /\ ExecPragma("SetJournalModeWal", "journal_mode=WAL", 0, out, "enabling WAL mode")
    /\ UNCHANGED <<store, now, engine, fileExists, purgePercent, syncInterval,
                   sched, entries, specs, regPending, wlock, tx, pc, loc,
                   built, written, closedUse>>

\* SetPageSize: if pageSize == 0, invalid page size; else the pragma
SetPageSize(pageSize, out) ==
    /\ IF pageSize = 0
       THEN RejectSetting("SetPageSize", pageSize, "invalid page size")
       ELSE ExecPragma("SetPageSize", "page_size", pageSize, out, "setting page size")
    /\ UNCHANGED <<store, now, engine, fileExists, purgePercent, syncInterval,
                   sched, entries, specs, regPending, wlock, tx, pc, loc,
                   built, written, closedUse>>

\* SetCacheSize: if cacheSize == 0, invalid cache size; else the pragma
SetCacheSize(cacheSize, out) ==
    /\ IF cacheSize = 0
       THEN RejectSetting("SetCacheSize", cacheSize, "invalid cache size or page size")
       ELSE ExecPragma("SetCacheSize", "cache_size", cacheSize, out, "setting cache size")
    /\ UNCHANGED <<store, now, engine, fileExists, purgePercent, syncInterval,
                   sched, entries, specs, regPending, wlock, tx, pc, loc,
                   built, written, closedUse>>

\* SetMaxPageCount: if maxPageCount == 0, invalid max page count; else the
\* pragma
SetMaxPageCount(maxPageCount, out) ==
    /\ IF maxPageCount = 0
       THEN RejectSetting("SetMaxPageCount", maxPageCount, "invalid max page count")
       ELSE ExecPragma("SetMaxPageCount", "max_page_count", maxPageCount, out,
                       "setting max page count")
    /\ UNCHANGED <<store, now, engine, fileExists, purgePercent, syncInterval,
                   sched, entries, specs, regPending, wlock, tx, pc, loc,
                   built, written, closedUse>>

NextDb ==
    \/ \E out \in DbOutcomes : SetJournalModeWal(out)
    \/ \E n \in Sizes, out \in DbOutcomes : SetPageSize(n, out)
    \/ \E n \in Sizes, out \in DbOutcomes : SetCacheSize(n, out)
    \/ \E n \in Sizes, out \in DbOutcomes : SetMaxPageCount(n, out)

SpecDb == InitDb /\ [][NextDb]_vars

\* ------------------------------------------------- a purge beside writers
\* Two goroutines share a cache built with WithPurgePercent(0.5) whose sweep
\* task is registered (the cron is never started).  The first calls Set and
\* may find the storage full, which runs PurgeDB; the second calls Set and
\* Del, which the engine runs or fails with a generic error.
PurgeValues == {"v1"}

InitPurge ==
    /\ store = {}
    /\ now = 0
    /\ engine = "open"
    /\ fileExists = TRUE
    /\ purgePercent = 5
    /\ sched = "created"
    /\ entries = 1
    /\ regPending = FALSE
    /\ wlock = "free"
    /\ tx = [p \in Callers |-> "none"]
    /\ pc = [p \in Callers |-> "idle"]
    /\ loc = [p \in Callers |-> IdleLoc]
    /\ built = "ok"
    /\ written = [k \in Keys |-> NoWrite]
    /\ closedUse = FALSE
    /\ syncInterval = EveryMinute
    /\ specs = {EveryMinute}
    /\ pragmas = <<>>
    /\ dbres = NoDbRes
    /\ db = NoDb

NextPurge ==
    \/ AdvanceClock
    \/ \E p \in Callers, k \in Keys, v \in PurgeValues, t \in TTLs :
          Call(p, "Set", k, v, t, "set_upsert")
    \/ \E k \in Keys : Call("p2", "Del", k, NoVal, 0, "del")
    \/ \E p \in Callers : Return(p)
    \/ \E out \in Outcomes :
          \/ SetUpsert("p1", out)
          \/ PurgeDBBegin("p1", out)
          \/ PurgeCount("p1", out)
          \/ PurgeDelete("p1", out)
          \/ VacuumWithTransaction("p1", out)
          \/ PurgeDBCommit("p1", out)
    \/ \E out \in {"ok", "other"} :
          \/ SetUpsert("p2", out)
          \/ Del("p2", out)

SpecPurge == InitPurge /\ [][NextPurge]_vars

\* ------------------------------------------------ the lazy-delete variant
\* The variant of the cache whose Get removes the entry it finds expired.
\* Its table holds key, value and expires_at; Set, Get and Del send one
\* statement each on the database handle, outside any transaction, and two
\* goroutines call them on one key.

\* INSERT OR REPLACE INTO cache (key, value, expires_at) VALUES (?, ?, ?)
InsertOrReplace(rows, k, v, e) ==
    {r \in rows : r.key # k} \cup {[key |-> k, value |-> v, expires_at |-> e]}

\* SELECT value, expires_at FROM cache WHERE key = ?
SelectByKey(rows, k) == {r \in rows : r.key = k}

InitLazy ==
    /\ store = {}
    /\ now = 0
    /\ engine = "open"
    /\ fileExists = TRUE
    /\ purgePercent = DefaultPurgeTenths
    /\ sched = "none"
    /\ entries = 0
    /\ regPending = FALSE
    /\ wlock = "free"
    /\ tx = [p \in Callers |-> "none"]
    /\ pc = [p \in Callers |-> "idle"]
    /\ loc = [p \in Callers |-> IdleLoc]
    /\ built = "ok"
    /\ written = [k \in Keys |-> NoWrite]
    /\ closedUse = FALSE
    /\ syncInterval = EveryMinute
    /\ specs = {}
    /\ pragmas = <<>>
    /\ dbres = NoDbRes
    /\ db = NoDb

\* Set: INSERT OR REPLACE with expires_at = time.Now().Add(ttl); the error of
\* Exec is returned
LazySet(p, out) ==
    /\ pc[p] = "lz_set"
    /\ out \in WriteOutcomes(p)
    /\ IF out = "ok"
       THEN /\ store' = InsertOrReplace(store, loc[p].key, loc[p].val, now + loc[p].ttl)
            /\ UNCHANGED loc
       ELSE /\ UNCHANGED store
            /\ loc' = [loc EXCEPT ![p].err = out, ![p].errsrc = "upsert"]
    /\ pc' = [pc EXCEPT ![p] = "done"]
    /\ UNCHANGED <<now, engine, fileExists, purgePercent, syncInterval, sched,
                   entries, specs, regPending, wlock, tx, built, pragmas,
                   dbres, db, written, closedUse>>

\* Get: QueryRow(...).Scan(&value, &expiresAt); sql.ErrNoRows gives
\* (nil, nil), any other error is returned
LazyGetLookup(p, out) ==
    /\ pc[p] = "lz_lookup"
    /\ out \in ReadOutcomes
    /\ IF out # "ok"
       THEN /\ pc' = [pc EXCEPT ![p] = "done"]
            /\ loc' = [loc EXCEPT ![p].err = out, ![p].errsrc = "lookup"]
       ELSE IF SelectByKey(store, loc[p].key) = {}
       THEN /\ pc' = [pc EXCEPT ![p] = "done"]
            /\ UNCHANGED loc
       ELSE \E r \in SelectByKey(store, loc[p].key) :
               /\ pc' = [pc EXCEPT ![p] = "lz_check"]
               /\ loc' = [loc EXCEPT ![p].res = r.value, ![p].exp = r.expires_at]
    /\ UNCHANGED <<store, now, engine, fileExists, purgePercent, syncInterval,
                   sched, entries, specs, regPending, wlock, tx, built,
                   pragmas, dbres, db, written, closedUse>>

\* Get: if time.Now().In(ch.timezone).After(expiresAt), go on to ch.Del(key);
\* else return the value
LazyGetCheck(p) ==
    /\ pc[p] = "lz_check"
    /\ IF now > loc[p].exp
       THEN /\ pc' = [pc EXCEPT ![p] = "lz_del"]
            /\ loc' = [loc EXCEPT ![p].res = NoVal]
       ELSE /\ pc' = [pc EXCEPT ![p] = "done"]
            /\ UNCHANGED loc
    /\ UNCHANGED <<store, now, engine, fileExists, purgePercent, syncInterval,
                   sched, entries, specs, regPending, wlock, tx, built,
                   pragmas, dbres, db, written, closedUse>>

\* Del, called by the caller or by Get: DELETE FROM cache WHERE key = ?; the
\* error of Exec is returned
LazyDel(p, out) ==
    /\ pc[p] = "lz_del"
    /\ out \in WriteOutcomes(p)
    /\ IF out = "ok"
       THEN /\ store' = DeleteKey(store, loc[p].key)
            /\ UNCHANGED loc
       ELSE /\ UNCHANGED store
            /\ loc' = [loc EXCEPT ![p].err = out, ![p].errsrc = "delete"]
    /\ pc' = [pc EXCEPT ![p] = "done"]
    /\ UNCHANGED <<now, engine, fileExists, purgePercent, syncInterval, sched,
                   entries, specs, regPending, wlock, tx, built, pragmas,
                   dbres, db, written, closedUse>>

NextLazy ==
    \/ AdvanceClock
    \/ \E p \in Callers, k \in ConcKeys, v \in Values, t \in ConcTTLs :
          Call(p, "Set", k, v, t, "lz_set")
    \/ \E p \in Callers, k \in ConcKeys : Call(p, "Get", k, NoVal, 0, "lz_lookup")
    \/ \E p \in Callers, k \in ConcKeys : Call(p, "Del", k, NoVal, 0, "lz_del")
    \/ \E p \in Callers : Return(p)
    \/ \E p \in Callers : LazyGetCheck(p)
    \/ \E p \in Callers, out \in {"ok", "other"} :
          \/ LazySet(p, out)
          \/ LazyGetLookup(p, out)
          \/ LazyDel(p, out)

SpecLazy == InitLazy /\ [][NextLazy]_vars

\* ------------------------------------------------- a sweep beside writers
\* Two goroutines share a cache built with the defaults: the first runs the
\* sweep, the second calls Set.  Each reads the clock in one step and sends
\* its statement in a later one.
NextSweep ==
    \/ AdvanceClock
    \/ Call("p1", "PurgeExpiredItems", NoKey, NoVal, 0, "reclaim")
    \/ \E k \in Keys, v \in PurgeValues, t \in ConcTTLs :
          Call("p2", "Set", k, v, t, "set_upsert")
    \/ \E p \in Callers : Return(p)
    \/ ReadClockSweep("p1")
    \/ ReadClockSet("p2")
    \/ \E out \in {"ok", "other"} :
          \/ loc["p1"].t >= 0 /\ PurgeExpiredItemsAt("p1", out, loc["p1"].t)
          \/ loc["p2"].t >= 0 /\ SetUpsertAt("p2", out, loc["p2"].t)

SpecSweep == InitConc /\ [][NextSweep]_vars

\* ------------------------------------------------ NewDatabase with options
\* The variant of NewDatabase that takes options: it creates the DSN, sets
\* the default engine, runs setupDatabase, and then applies the options.
\* db.opts and db.with are the options of the call (a size of 0: the option
\* was not passed; with: the engine WithEngine carries, or "none").
OptPageSizes == {0, 1024, 4096}
OptCacheSizes == {0, 8192}
OptDbSizes == {0, 16384}
OptEngines == {"none", "supplied"}
\* the statement of setupDatabase that the engine fails, if any
SetupFails == {"none", "journal_mode=WAL", "synchronous=NORMAL", "page_size",
               "cache_size", "max_page_count"}

\* NewDatabase(ctx, path, dbName, options...): cfg := &config{}, db := &database{cfg: cfg}
NewDatabaseCall(ps, cs, ds, with) ==
    /\ db.step = "none"
    /\ db' = [NoDb EXCEPT !.step = "dsn",
                          !.opts = [pageSize |-> ps, cacheSize |-> cs, dbSize |-> ds],
                          !.with = with]
    /\ pragmas' = <<>>
    /\ UNCHANGED <<store, now, engine, fileExists, purgePercent, syncInterval,
                   sched, entries, specs, regPending, wlock, tx, pc, loc,
                   built, written, closedUse, dbres>>

\* helpers.CreateDSN: an error is returned wrapped
CreateDSN(out) ==
    /\ db.step = "dsn"
    /\ out \in DbOutcomes
    /\ db' = IF out = "ok" THEN [db EXCEPT !.step = "engine"]
             ELSE [db EXCEPT !.step = "returned", !.err = "error creating DSN"]
    /\ UNCHANGED <<store, now, engine, fileExists, purgePercent, syncInterval,
                   sched, entries, specs, regPending, wlock, tx, pc, loc,
                   built, written, closedUse, pragmas, dbres>>

\* db.setEngine(): the default driver on the DSN becomes db.engine
setEngine(out) ==
    /\ db.step = "engine"
    /\ out \in DbOutcomes
    /\ db' = IF out = "ok" THEN [db EXCEPT !.step = "setup", !.engine = "default"]
             ELSE [db EXCEPT !.step = "returned", !.err = "error setting up engine"]
    /\ UNCHANGED <<store, now, engine, fileExists, purgePercent, syncInterval,
                   sched, entries, specs, regPending, wlock, tx, pc, loc,
                   built, written, closedUse, pragmas, dbres>>

\* one PRAGMA of setupDatabase, sent on engine e
Pragma(name, arg, e) == [name |-> name, arg |-> arg, on |-> e]

\* the statements setupDatabase sends for configuration cfg on engine e: WAL,
\* synchronous, then setPageSize, setCacheSize and setPageCount, each of
\* which sends nothing when its size (or the page size it divides by) is 0
SetupPragmas(cfg, e) ==
    <<Pragma("journal_mode=WAL", 0, e), Pragma("synchronous=NORMAL", 0, e)>>
    \o (IF cfg.pageSize = 0 THEN <<>>
        ELSE <<Pragma("page_size", cfg.pageSize, e)>>)
    \o (IF cfg.cacheSize = 0 THEN <<>>
        ELSE <<Pragma("cache_size", cfg.cacheSize \div cfg.pageSize, e)>>)
    \o (IF cfg.pageSize = 0 \/ cfg.dbSize = 0 THEN <<>>
        ELSE <<Pragma("max_page_count", cfg.dbSize \div cfg.pageSize, e)>>)

\* the statements sent when the one named fail fails: those up to it
SentUpTo(seq, fail) ==
    LET idx == {i \in 1..Len(seq) : seq[i].name = fail}
    IN  IF idx = {} THEN seq
        ELSE SubSeq(seq, 1, CHOOSE i \in idx : \A j \in idx : i <= j)

\* db.setupDatabase(ctx) with the configuration as it is at that point; a
\* cache size with a zero page size divides by zero
setupDatabase(fail) ==
    /\ db.step = "setup"
    /\ fail \in SetupFails
    /\ IF db.cfg.cacheSize # 0 /\ db.cfg.pageSize = 0
       THEN /\ pragmas' = SetupPragmas([db.cfg EXCEPT !.cacheSize = 0, !.dbSize = 0], db.engine)
            /\ db' = [db EXCEPT !.step = "panic"]
       ELSE LET all == SetupPragmas(db.cfg, db.engine)
                sent == SentUpTo(all, fail)
            IN  /\ pragmas' = sent
                /\ db' = IF \E i \in 1..Len(all) : all[i].name = fail
                         THEN [db EXCEPT !.step = "returned",
                                         !.err = "error setting up database"]
                         ELSE [db EXCEPT !.step = "options"]
    /\ UNCHANGED <<store, now, engine, fileExists, purgePercent, syncInterval,
                   sched, entries, specs, regPending, wlock, tx, pc, loc,
                   built, written, closedUse, dbres>>

\* for _, option := range options { option(db, cfg) }; return db, nil
ApplyOptions ==
    /\ db.step = "options"
    /\ db' = [db EXCEPT !.step = "returned",
                        !.cfg = db.opts,
                        !.engine = IF db.with = "none" THEN @ ELSE db.with]
    /\ UNCHANGED <<store, now, engine, fileExists, purgePercent, syncInterval,
                   sched, entries, specs, regPending, wlock, tx, pc, loc,
                   built, written, closedUse, pragmas, dbres>>

NextNewDb ==
    \/ \E ps \in OptPageSizes, cs \in OptCacheSizes, ds \in OptDbSizes,
          with \in OptEngines : NewDatabaseCall(ps, cs, ds, with)
    \/ \E out \in DbOutcomes : CreateDSN(out)
    \/ \E out \in DbOutcomes : setEngine(out)
    \/ \E fail \in SetupFails : setupDatabase(fail)
    \/ ApplyOptions

SpecNewDb == Init /\ [][NextNewDb]_vars


\* ================================================================ claims

\* C1: a Get of key k that reads while the row written by the last successful
\* Set of k is still there (no Del, purge or sweep removed it, no later Set
\* replaced it) and before its expires_at returns exactly that value with a nil
\* error, unless the engine failed the lookup statement itself.
C1_SetThenGet ==
    \A p \in Procs :
        (/\ loc[p].op = "Get"
         /\ pc[p] \in {"get_touch", "done"}
         /\ loc[p].want # NoVal
         /\ loc[p].errsrc # "lookup")
        => (loc[p].res = loc[p].want /\ loc[p].err = "nil")

C1_Witness ==
    \E p \in Procs :
        /\ loc[p].op = "Get"
        /\ pc[p] = "done"
        /\ loc[p].want = "v2"
        /\ loc[p].res = "v2"
        /\ loc[p].err = "nil"

\* C2: a Get lookup that hits returns the value of a row of the requested key
\* whose expires_at is strictly after the now of the read; when every row of
\* the key has expires_at <= now, swept or not, the lookup returns no value.
C2_NoExpiredRead ==
    [][\A p \in Procs :
          pc[p] = "get_lookup" /\ pc'[p] # "get_lookup" =>
             /\ loc'[p].res # NoVal =>
                   \E r \in RowsOf(store, loc[p].key) :
                       r.value = loc'[p].res /\ r.expires_at > now
             /\ (\A r \in RowsOf(store, loc[p].key) : r.expires_at <= now) =>
                   loc'[p].res = NoVal]_vars

\* an expired row that is still stored, read at the very instant it expires
C2_Witness ==
    \E p \in Procs :
        /\ loc[p].op = "Get"
        /\ pc[p] = "done"
        /\ loc[p].err = "nil"
        /\ loc[p].res = NoVal
        /\ \E r \in RowsOf(store, loc[p].key) : r.expires_at = now

\* C3: one Set makes at most two upsert attempts and runs at most one purge.
C3_OnePurgeOneRetry ==
    \A p \in Procs :
        loc[p].op = "Set" => (loc[p].ups <= RetryAttempts /\ loc[p].purges <= 1)

\* C4: when PurgeItens has returned success on a store that held N entries
\* (no sweep running beside it), the store holds N - floor(N*f) entries, the
\* selected entries are gone, and no surviving entry was accessed before one
\* of them.
C4_PurgeItensRemovesFraction ==
    \A p \in Procs :
        (/\ loc[p].op = "PurgeItens"
         /\ pc[p] = "done"
         /\ loc[p].err = "nil"
         /\ sched # "running")
        => /\ Cardinality(store) =
                  loc[p].total - ((loc[p].total * purgePercent) \div 10)
           /\ \A r \in store :
                  r.key \notin loc[p].victims /\ loc[p].vmax <= r.last_accessed_at

\* C5: a reclaim statement that succeeds at instant now removes every row with
\* expires_at <= now, keeps every row with expires_at > now and adds nothing;
\* this holds for the scheduled task, for its first run at registration and
\* for PurgeExpiredItems.
C5_ReclaimExact ==
    [][(\/ Tick("ok")
        \/ PurgeExpiredItensCache("ok")
        \/ \E p \in Procs : PurgeExpiredItems(p, "ok"))
       => /\ store' \subseteq store
          /\ \A r \in store : (r.expires_at <= now) <=> (r \notin store')]_vars

\* a reclaim that removed a row and kept another
C5_Witness ==
    \E p \in Procs :
        /\ loc[p].op = "PurgeExpiredItems"
        /\ pc[p] = "done"
        /\ loc[p].err = "nil"
        /\ loc[p].aff > 0
        /\ store # {}

\* at most one stored row per key
UniqueKeys == \A r1 \in store : \A r2 \in store : r1.key = r2.key => r1 = r2

\* C6: there is never more than one row per key, and the upsert of a
\* successful Set leaves, for its key, the single row that carries the call's
\* value, its expires_at = now + ttl and its last_accessed_at = now, whether
\* or not the key had a row before.
C6_UpsertOverwrites ==
    /\ []UniqueKeys
    /\ [][\A p \in Procs :
             pc[p] = "set_upsert" /\ pc'[p] = "done" /\ loc'[p].err = "nil" =>
                RowsOf(store', loc[p].key) =
                    {Row(loc[p].key, loc[p].val, now + loc[p].ttl, now)}]_vars

\* a Set that succeeded on a key that already had a row with the other value
\* and an older access time
C6_Witness ==
    \E p \in Procs :
        /\ loc[p].op = "Set"
        /\ pc[p] = "done"
        /\ loc[p].err = "nil"
        /\ loc[p].aff = 1
        /\ now > 0
        /\ RowsOf(store, loc[p].key) =
               {Row(loc[p].key, loc[p].val, now + loc[p].ttl, now)}

\* C7: a Del whose statement the engine executes on a key without a row
\* returns a nil error and leaves the table as it was; deleting a key again
\* changes nothing more.
C7_DelAbsentIsNoOp ==
    /\ [][\A p \in Procs :
             (/\ pc[p] = "del"
              /\ pc'[p] = "done"
              /\ loc'[p].errsrc # "delete"
              /\ RowsOf(store, loc[p].key) = {})
             => (store' = store /\ loc'[p].err = "nil")]_vars
    /\ [](\A k \in Keys : DeleteKey(DeleteKey(store, k), k) = DeleteKey(store, k))

\* a Del of an absent key that returned success beside a stored row
C7_Witness ==
    \E p \in Procs :
        /\ loc[p].op = "Del"
        /\ pc[p] = "done"
        /\ loc[p].err = "nil"
        /\ loc[p].aff = 0
        /\ store # {}

\* C8: whenever the storage handle is closed the scheduler has been stopped.
C8_StopBeforeClose == engine = "closed" => sched = "stopped"

\* C9: once Close or Destroy has returned the scheduler reports no task, and
\* the sweep never issues a statement against a closed handle.
C9_NoReclaimAfterClose ==
    /\ ~closedUse
    /\ \A p \in Procs :
          loc[p].op \in {"Close", "Destroy"} /\ pc[p] = "done" => ~HasTasks

\* C10: a cache that NewCache built successfully has a running scheduler.
C10_RunningAfterNewCache == built = "ok" => sched = "running"

\* C11: a Set whose first upsert failed with an error that is not storage-full
\* has run no purge, has made that one upsert attempt only, and has returned
\* that error.
C11_OnlyFullRetries ==
    \A p \in Procs :
        (loc[p].op = "Set" /\ loc[p].i >= 1 /\ loc[p].purges = 0)
        => /\ pc[p] = "done"
           /\ loc[p].ups = 1
           /\ loc[p].err = "other" /\ loc[p].errsrc = "upsert"

\* C12: when the purge that a storage-full upsert of Set triggered commits and
\* returns success on a store that held N >= 1 entries, the store holds fewer
\* entries than before, so the retried upsert finds space freed.
C12_PurgeFreesSpace ==
    [][\A p \in Procs :
          (/\ loc[p].op = "Set"
           /\ pc[p] = "pdb_commit"
           /\ pc'[p] = "set_upsert"
           /\ loc'[p].err = "nilwrap"
           /\ loc[p].total >= 1)
          => Cardinality(store') < Cardinality(store)]_vars

\* C13: a Set that has returned after its two upsert attempts failed returns
\* the storage error of the upsert, and after two storage-full attempts that
\* error is still classified as storage-full.
C13_ExhaustedReturnsUpsertError ==
    \A p \in Procs :
        (/\ loc[p].op = "Set"
         /\ pc[p] = "done"
         /\ loc[p].ups = RetryAttempts
         /\ loc[p].err # "nil")
        => /\ loc[p].errsrc = "upsert"
           /\ loc[p].err \in {"full", "other"}
           /\ loc[p].purges = RetryAttempts => IsDatabaseFullError(loc[p].err)

\* C14: a purge that runs with a fraction outside [0,1] never reaches its
\* delete, vacuum or commit; its range check returns the validation error and
\* leaves the stored entries exactly as they were.
C14_InvalidFractionDeletesNothing ==
    /\ []((purgePercent < 0 \/ purgePercent > 10) =>
             \A p \in Procs : pc[p] \notin {"purge_delete", "pdb_vacuum",
                                           "pdb_commit", "pi_end", "pi_vacuum"})
    /\ [][\A p \in Procs :
             (pc[p] = "purge_count" /\ pc'[p] # "purge_count"
              /\ (purgePercent < 0 \/ purgePercent > 10))
             => /\ store' = store
                /\ loc'[p].err = "invalid"
                /\ loc'[p].errsrc = "purge"]_vars

\* a PurgeItens that returned the validation error beside stored entries
C14_Witness ==
    \E p \in Procs :
        /\ loc[p].op = "PurgeItens"
        /\ pc[p] = "done"
        /\ loc[p].err = "invalid"
        /\ purgePercent > 10
        /\ Cardinality(store) = 2

\* C15: with a configured fraction outside [0,1] the cache does no I/O: the
\* construction opens no storage handle and no purge begins a transaction.
C15_InvalidFractionNoIO ==
    (purgePercent < 0 \/ purgePercent > 10)
    => (engine = "none" /\ \A p \in Procs : tx[p] = "none")

\* C16: a Get lookup that hits goes on to the access-time update; the update,
\* when the engine executes it, leaves the key's row with last_accessed_at =
\* now; whether it succeeds or fails, Get then returns the value it read with
\* a nil error.
C16_TouchOnHitErrorSwallowed ==
    /\ [][\A p \in Procs :
             (pc[p] = "get_lookup" /\ loc'[p].res # NoVal) => pc'[p] = "get_touch"]_vars
    /\ [][\A p \in Procs :
             (pc[p] = "get_touch" /\ pc'[p] # "get_touch")
             => /\ pc'[p] = "done"
                /\ loc'[p].res = loc[p].res
                /\ loc'[p].res # NoVal
                /\ loc'[p].err = "nil"
                /\ loc'[p].errsrc # "touch" =>
                      \A r \in RowsOf(store', loc[p].key) : r.last_accessed_at = now]_vars

\* a Get that returned the value although its access-time update failed, on a
\* row last accessed at an earlier instant
C16_Witness ==
    \E p \in Procs :
        /\ loc[p].op = "Get"
        /\ pc[p] = "done"
        /\ loc[p].res = "v1"
        /\ loc[p].err = "nil"
        /\ loc[p].errsrc = "touch"
        /\ \E r \in RowsOf(store, loc[p].key) : r.last_accessed_at < now

C18_MissReturnsErrKeyNotFound ==
    \A p \in Procs :
        (/\ loc[p].op = "Get"
         /\ pc[p] = "done"
         /\ loc[p].errsrc # "lookup"
         /\ loc[p].res = NoVal)
        => loc[p].err = "ErrKeyNotFound"

\* C19: once two Set calls on the same key have both returned success, the
\* key's single row carries the value, expires_at and last_accessed_at that
\* one of the two calls wrote, namely the call whose upsert committed last.
C19_LastWriteWins ==
    \A k \in Keys :
        (\A p \in Callers : /\ loc[p].op = "Set"
                            /\ loc[p].key = k
                            /\ pc[p] = "done"
                            /\ loc[p].err = "nil")
        => \E p \in Callers :
              /\ written[k].ok
              /\ written[k].value = loc[p].val
              /\ RowsOf(store, k) =
                     {Row(k, loc[p].val, written[k].expires_at,
                          written[k].expires_at - loc[p].ttl)}

\* two overlapping Sets of different values at different instants: q was
\* called while p's call was in flight, and p's upsert committed last
C19_Witness ==
    \E p \in Callers, q \in Callers :
        /\ p # q
        /\ loc[p].op = "Set" /\ pc[p] = "done" /\ loc[p].err = "nil"
        /\ loc[q].op = "Set" /\ pc[q] = "done" /\ loc[q].err = "nil"
        /\ loc[p].key = loc[q].key
        /\ loc[p].val # loc[q].val
        /\ loc[q].conc
        /\ loc[p].aff = 1
        /\ \E r \in RowsOf(store, loc[p].key) :
              r.value = loc[p].val /\ r.last_accessed_at > 0

\* C20: a Get lookup returns the value of a row stored at that moment or the
\* not-found outcome, and Get returns what its lookup read; a Del that returns
\* success leaves its key without a row; and a key has a row only after a
\* successful upsert of a Set, so nothing an in-flight Get does brings a
\* deleted key back.
C20_GetDelRace ==
    /\ [][\A p \in Callers :
             (pc[p] = "get_lookup" /\ pc'[p] # "get_lookup")
             => /\ loc'[p].res # NoVal =>
                      \E r \in RowsOf(store, loc[p].key) : r.value = loc'[p].res
                /\ loc'[p].errsrc # "lookup" => loc'[p].err = "nil"]_vars
    /\ [][\A p \in Callers :
             (pc[p] = "get_touch" /\ pc'[p] # "get_touch")
             => loc'[p].res = loc[p].res /\ loc'[p].err = "nil"]_vars
    /\ [][\A p \in Callers :
             (pc[p] = "del" /\ pc'[p] = "done" /\ loc'[p].err = "nil")
             => RowsOf(store', loc[p].key) = {}]_vars
    /\ [](\A k \in Keys : ~written[k].ok => RowsOf(store, k) = {})

\* a Get that read the old value, a Del of the same key that removed the row
\* and returned while the Get was in flight, and the Get's access-time update
\* then changing no row
C20_Witness ==
    \E p \in Callers, q \in Callers :
        /\ p # q
        /\ loc[p].op = "Get" /\ pc[p] = "done"
        /\ loc[p].res = "v1" /\ loc[p].err = "nil"
        /\ loc[p].errsrc = "none" /\ loc[p].aff = 0
        /\ loc[q].op = "Del" /\ pc[q] = "done" /\ loc[q].err = "nil"
        /\ loc[q].key = loc[p].key
        /\ loc[q].aff = 1
        /\ loc[q].conc
        /\ RowsOf(store, loc[p].key) = {}

\* C21: no step lowers the last_accessed_at of a stored entry: a row that a
\* step keeps or replaces has afterwards a last_accessed_at at least as large
\* as before.
C21_AccessTimeMonotonic ==
    [][\A r \in store : \A r2 \in store' :
          r2.key = r.key => r2.last_accessed_at >= r.last_accessed_at]_vars

\* C24: when the context is cancelled at the start of an upsert attempt of
\* Set (the first, or the second after the first failed), Set makes no
\* upsert attempt any more, leaves the store as it is and returns the
\* context's error.
C24_CancelStopsRetry ==
    [][\A p \in Procs :
          (/\ loc[p].op = "Set"
           /\ pc[p] = "set_upsert"
           /\ loc[p].ctx = "cancelled"
           /\ <<pc'[p], loc'[p]>> # <<pc[p], loc[p]>>)
          => /\ pc'[p] = "done"
             /\ loc'[p].err = "canceled"
             /\ loc'[p].errsrc = "ctx"
             /\ loc'[p].ups = loc[p].ups
             /\ store' = store]_vars

\* a Set cancelled between its first, failed attempt and the second
C24_Witness ==
    \E p \in Procs :
        /\ loc[p].op = "Set"
        /\ pc[p] = "done"
        /\ loc[p].err = "canceled"
        /\ loc[p].errsrc = "ctx"
        /\ loc[p].ups = 1
        /\ loc[p].purges = 0

\* C25: a purge that is entered with its context already cancelled begins no
\* transaction.
C25_CancelledPurgeNoTx ==
    [][\A p \in Procs :
          (pc[p] \in {"pdb_begin", "pi_begin"} /\ loc[p].ctx = "cancelled")
          => tx'[p] = "none"]_vars

\* C26: a purge whose transaction has outlasted the purge timeout is aborted
\* at its next step: nothing is deleted, the transaction is ended and the
\* call gets a timeout error.
C26_PurgeTimeoutAborts ==
    [][\A p \in Procs :
          (/\ loc[p].overdue
           /\ pc[p] \in {"purge_count", "purge_delete", "pdb_vacuum",
                         "pdb_commit", "pi_end"}
           /\ pc'[p] # pc[p])
          => /\ store' = store
             /\ tx'[p] = "none"
             /\ loc'[p].err = "timeout"]_vars

C27_DestroyClosesFirst ==
    /\ [][\A p \in Procs :
             (pc[p] = "destroy_close" /\ pc'[p] # "destroy_close")
             => /\ fileExists' = fileExists
                /\ engine' = "closed"
                /\ pc'[p] = "done" =>
                      (loc'[p].errsrc = "close" /\ loc'[p].err # "nil")]_vars
    /\ [](\A p \in Procs : pc[p] = "destroy_remove" =>
             (engine = "closed" /\ loc[p].err = "nil"))
    /\ [](\A p \in Procs :
             (loc[p].op = "Destroy" /\ pc[p] = "done" /\ loc[p].errsrc = "close")
             => fileExists)

\* a Destroy that returned the close error beside the file and its entries
C27_Witness ==
    \E p \in Procs :
        /\ loc[p].op = "Destroy"
        /\ pc[p] = "done"
        /\ loc[p].errsrc = "close"
        /\ loc[p].err = "other"
        /\ engine = "closed"
        /\ fileExists
        /\ store # {}

C23_TaskUsesSyncInterval == specs \subseteq {syncInterval}

\* C28: a SetPageSize whose page size is zero or negative returns the
\* "invalid page size" validation error and sends the engine no pragma.
C28_NonPositivePageSizeRejected ==
    [][\A n \in Sizes, out \in DbOutcomes :
          (n <= 0 /\ SetPageSize(n, out))
          => (dbres'.err = "invalid page size" /\ pragmas' = pragmas)]_vars

C31_PurgeDBFinishesTx ==
    [][\A p \in Procs :
          (/\ loc[p].op = "Set"
           /\ pc[p] \in {"pdb_begin", "purge_count", "purge_delete",
                         "pdb_vacuum", "pdb_commit"}
           /\ pc'[p] \in {"set_upsert", "done"})
          => tx'[p] = "none"]_vars

\* C32: the step by which a Set returns an error leaves what is stored for
\* its key as it was: same presence, value and expires_at.
C32_FailedSetKeepsEntry ==
    [][\A p \in Procs :
          (/\ loc[p].op = "Set"
           /\ pc[p] # "done"
           /\ pc'[p] = "done"
           /\ loc'[p].err # "nil")
          => RowsOf(store', loc[p].key) = RowsOf(store, loc[p].key)]_vars

\* C33: the delete that a Get of the lazy-delete variant sends for the entry
\* it found expired removes no entry that is unexpired when the delete runs:
\* an entry a concurrent Set committed meanwhile is still stored.
C33_LazyDeleteKeepsFresh ==
    [][\A p \in Callers :
          (loc[p].op = "Get" /\ pc[p] = "lz_del" /\ pc'[p] = "done")
          => \A r \in store : r.expires_at > now => r \in store']_vars

\* C34: the statement of a sweep removes only stored entries, and none whose
\* expires_at is greater than the now that sweep read, whatever Set calls
\* created or renewed between the reading and the statement.
C34_SweepKeepsUnexpired ==
    [][\A p \in Callers :
          (loc[p].op = "PurgeExpiredItems" /\ pc[p] = "reclaim" /\ pc'[p] = "done")
          => /\ store' \subseteq store
             /\ \A r \in store : r.expires_at > loc[p].t => r \in store']_vars

\* a sweep has removed an entry and left one that a Set, in flight beside
\* it, wrote with a later expires_at
C34_Witness ==
    /\ loc["p1"].op = "PurgeExpiredItems"
    /\ pc["p1"] = "done"
    /\ loc["p1"].aff = 1
    /\ loc["p1"].conc
    /\ \E r \in store : r.expires_at > now

\* what a Get may not change of an entry: its key, value and expires_at
Content(rows) ==
    {[key |-> r.key, value |-> r.value, expires_at |-> r.expires_at] : r \in rows}

\* C35: a step of a Get leaves the stored keys and every entry's value and
\* expires_at as they were, and every entry of another key untouched; its
\* lookup step (a miss, an expired entry, a failed lookup, or a hit) changes
\* nothing at all, so only the last_accessed_at of the requested key can move.
C35_GetFrame ==
    [][\A p \in Procs :
          (loc[p].op = "Get" /\ pc'[p] # pc[p])
          => /\ Content(store') = Content(store)
             /\ \A r \in store : r.key # loc[p].key => r \in store'
             /\ pc[p] = "get_lookup" => store' = store]_vars

\* a Get has hit and moved the access time of its key past that of another
\* stored key
C35_Witness ==
    \E p \in Procs :
        /\ loc[p].op = "Get"
        /\ pc[p] = "done"
        /\ loc[p].res # NoVal
        /\ loc[p].errsrc = "none"
        /\ \E r \in store, r2 \in store :
              /\ r.key = loc[p].key
              /\ r2.key # r.key
              /\ r.last_accessed_at = now
              /\ r2.last_accessed_at < now

\* C36: a cache that NewCache returned with a nil error has its sweep task
\* registered with the scheduler: HasTasks is true from then on.
C36_RegisteredAtReturn == built = "ok" => HasTasks

\* C37: when NewScheduler failed the scheduler is nil, no goroutine is left
\* to call Task on it, and none has called it.
C37_NoTaskOnNilScheduler ==
    /\ sched = "none" => ~regPending
    /\ sched # "panic"

\* C38: a NewCache that returned an error has left no open storage handle.
C38_FailedBuildClosesEngine == built = "failed" => engine # "open"

\* C39: when NewDatabase has returned a database, the page_size, cache_size
\* and max_page_count pragmas it issued carry the values of the options it
\* was given, and every pragma it issued went to the engine the database
\* ends up with (the supplied one, when WithEngine was passed).
C39_OptionsBeforePragmas ==
    (db.step = "returned" /\ db.err = "nil")
    => /\ db.opts.pageSize # 0 =>
             \E i \in 1..Len(pragmas) :
                 pragmas[i] = Pragma("page_size", db.opts.pageSize, db.engine)
       /\ (db.opts.cacheSize # 0 /\ db.opts.pageSize # 0) =>
             \E i \in 1..Len(pragmas) :
                 pragmas[i] = Pragma("cache_size",
                                     db.opts.cacheSize \div db.opts.pageSize, db.engine)
       /\ (db.opts.dbSize # 0 /\ db.opts.pageSize # 0) =>
             \E i \in 1..Len(pragmas) :
                 pragmas[i] = Pragma("max_page_count",
                                     db.opts.dbSize \div db.opts.pageSize, db.engine)
       /\ \A i \in 1..Len(pragmas) : pragmas[i].on = db.engine

====
